---- MODULE Spec2Model ----
(***************************************************************************)
(* Model of classification/src/steps/embedding.py: the Embedding step,     *)
(* which loads the feature layers of a trained model into a bare backbone, *)
(* runs it over a batched data source and stores features, labels and the  *)
(* example count in an HDF5 archive.                                       *)
(***************************************************************************)
EXTENDS Integers, Sequences, FiniteSets, TLC

VARIABLES
    cfg,            \* the step's fields set in __init__ (never reassigned)
    n_examples,     \* number of examples of the split (the data source)
    heap,           \* dict objects: the caller's model_state['state'] and the local copy
    given,          \* history: model_state['state'] as it was when apply was called
    stateRef,       \* which dict object the local `state` of _load_model names
    state_keys,     \* _load_model: list(state.keys())
    ki,             \* _load_model: position of the for loop over state_keys
    model,          \* the backbone instance, NoModel before it is built
    data_loader,    \* the data loader returned by _get_data_loader_and_outfile
    outfile,        \* the output path, a sequence of path components
    dirs,           \* filesystem: the directories that exist
    files,          \* filesystem: path -> HDF5 archive (field name -> array)
    filesAtCall,    \* history: `files` when the current apply was called
    f,              \* _save_features: the h5py.File handle: "none", "open", "closed"
    max_count,      \* _save_features: capacity
    all_labels_array, \* _save_features: in-memory mirror of the labels
    all_feats_array,  \* _save_features: in-memory mirror of the features, None at first
    count,          \* _save_features: running write offset
    i,              \* _save_features: index of the next batch
    seed,           \* the global random seed
    result,         \* what apply returned: NoResult, None or a pair
    err,            \* the exception apply propagated, "none" if none
    run,            \* number of the current call of apply
    firstArchive,   \* history: the archive left by the first successful call
    pc

vars == <<cfg, n_examples, heap, given, stateRef, state_keys, ki, model, data_loader,
          outfile, dirs, files, filesAtCall, f, max_count, all_labels_array,
          all_feats_array, count, i, seed, result, err, run, firstArchive, pc>>

loadVars == <<heap, stateRef, state_keys, ki, model>>
saveVars == <<f, max_count, all_labels_array, all_feats_array, count, i>>

----------------------------------------------------------------------------
(* Bounds *)

MaxExamples == 130      \* largest split
MaxKeys == 3            \* largest model_state['state'] of SpecLoad
MaxRuns == 2            \* calls of apply in a behaviour
MaxIter == 13           \* largest |save_iter| of SpecPath

(* Program constants *)

BatchSize == 64
ConvImageSize == 84
OtherImageSize == 224
BestIter == -1

\* Python's None and a value that may be None: <<>> and <<v>>
None == <<>>
Some(v) == <<v>>
IsNone(o) == o = <<>>
Value(o) == o[1]

NoModel == [name |-> "", flatten |-> TRUE, expected |-> {}, params |-> <<>>, training |-> TRUE]
NoLoader == [image_size |-> 0, batch_size |-> 0, n |-> 0]
NoResult == [kind |-> "unset"]
ReturnedNone == [kind |-> "None"]
Pair(feats, labels) == [kind |-> "pair", feats |-> feats, labels |-> labels]
NoArchive == <<>>

----------------------------------------------------------------------------
(* Python strings as sequences of characters *)

FEATURE == <<"f","e","a","t","u","r","e",".">>
TRUNK_W == <<"t","r","u","n","k",".","0",".","w","e","i","g","h","t">>
CLASSIFIER_W == <<"c","l","a","s","s","i","f","i","e","r",".","w","e","i","g","h","t">>
BIAS == <<"b">>

\* sub in s
StrContains(s, sub) ==
    \E p \in 1..(Len(s) - Len(sub) + 1) : SubSeq(s, p, p + Len(sub) - 1) = sub

StartsWith(s, pre) ==
    Len(s) >= Len(pre) /\ SubSeq(s, 1, Len(pre)) = pre

\* s.replace(old, ""), every non-overlapping occurrence, left to right
RECURSIVE StrRemoveAll(_, _)
StrRemoveAll(s, old) ==
    IF Len(s) < Len(old) THEN s
    ELSE IF SubSeq(s, 1, Len(old)) = old
         THEN StrRemoveAll(SubSeq(s, Len(old) + 1, Len(s)), old)
         ELSE <<Head(s)>> \o StrRemoveAll(Tail(s), old)

----------------------------------------------------------------------------
(* Python dicts: insertion-ordered sequences of [k, v] entries *)

DictKeys(d) == [p \in 1..Len(d) |-> d[p].k]
KeySet(d) == {d[p].k : p \in 1..Len(d)}
DictGet(d, k) == (CHOOSE p \in 1..Len(d) : d[p].k = k)

DictPopped(d, k) == SelectSeq(d, LAMBDA e : e.k # k)
DictValue(d, k) == d[DictGet(d, k)].v

\* d[k] = v: an existing key keeps its position
DictSet(d, k, v) ==
    IF k \in KeySet(d)
    THEN [p \in 1..Len(d) |-> IF d[p].k = k THEN [k |-> k, v |-> v] ELSE d[p]]
    ELSE Append(d, [k |-> k, v |-> v])

Entries(d) == {<<d[p].k, d[p].v>> : p \in 1..Len(d)}

CallerRef == "model_state.state"
CopyRef == "state.copy"

\* model_state['state'].copy() with the caller's dict aliased instead
DictCopyAliased(h, r) == [ref |-> r, heap |-> h]

\* model_state['state'].copy(): a new dict object with the same entries
DictCopy(h, r) == [ref |-> CopyRef, heap |-> [h EXCEPT ![CopyRef] = h[r]]]

----------------------------------------------------------------------------
(* Configuration *)

MamlMethods == {"maml", "maml_approx"}
RelationMethods == {"relationnet", "relationnet_softmax"}
ConvFamily == {"Conv4", "Conv6", "Conv4S"}        \* the names with 'Conv' in them

CheckpointDir == <<"output", "CUB_model">>

\* parameter names of the backbones of the registry
ExpectedKeys(backbone) ==
    IF backbone = "Conv4" THEN {TRUNK_W} ELSE {TRUNK_W, BIAS}

Config(method, backbone, split, save_iter, random_seed, checkpoint_dir) ==
    [method |-> method, backbone |-> backbone, split |-> split,
     save_iter |-> save_iter, random_seed |-> random_seed,
     checkpoint_dir |-> checkpoint_dir]

----------------------------------------------------------------------------
(* _load_model *)

\* the backbone built for (method, backbone), on the device, in training mode
CreateBackbone(method, backbone) ==
    [name |-> backbone,
     flatten |-> ~(method \in RelationMethods),
     expected |-> ExpectedKeys(backbone),
     params |-> <<>>,
     training |-> TRUE]

\* one iteration of the loop over state_keys, on the dict d
FilterEntry(d, state_key) ==
    IF StrContains(state_key, FEATURE)
    THEN LET newkey == StrRemoveAll(state_key, FEATURE)
             v == DictValue(d, state_key)
         IN  DictSet(DictPopped(d, state_key), newkey, v)
    ELSE DictPopped(d, state_key)

\* load_state_dict without the check of the key set
StateDictAccepted(m, d) == TRUE

\* load_state_dict (strict): the keys given are exactly the parameters expected
StateDictMatches(m, d) == KeySet(d) = m.expected

Raise(e) ==
    /\ pc' = "error"
    /\ err' = e

\* lines 180-197: copy the state, list its keys, build the backbone
LoadModelBegin ==
    /\ pc = "load_model"
    /\ LET c == DictCopy(heap, CallerRef)
       IN  /\ heap' = c.heap
           /\ stateRef' = c.ref
           /\ state_keys' = DictKeys(c.heap[c.ref])
    /\ ki' = 1
    /\ model' = CreateBackbone(cfg.method, cfg.backbone)
    /\ pc' = "filter"
    /\ UNCHANGED <<cfg, n_examples, given, data_loader, outfile, dirs, files,
                   filesAtCall, saveVars, seed, result, err, run, firstArchive>>

\* lines 200-206: one key of state_keys
FilterKey ==
    /\ pc = "filter"
    /\ ki <= Len(state_keys)
    /\ heap' = [heap EXCEPT ![stateRef] = FilterEntry(heap[stateRef], state_keys[ki])]
    /\ ki' = ki + 1
    /\ UNCHANGED <<cfg, n_examples, given, stateRef, state_keys, model, data_loader,
                   outfile, dirs, files, filesAtCall, saveVars, seed, result, err,
                   run, firstArchive, pc>>

\* lines 208-211: load the filtered state, switch to inference mode, return
LoadStateDict ==
    /\ pc = "filter"
    /\ ki > Len(state_keys)
    /\ IF StateDictMatches(model, heap[stateRef])
       THEN /\ model' = [model EXCEPT !.params = heap[stateRef], !.training = FALSE]
            /\ pc' = "get_loader"
            /\ err' = err
       ELSE /\ Raise("key_mismatch")
            /\ model' = model
    /\ UNCHANGED <<cfg, n_examples, heap, given, stateRef, state_keys, ki, data_loader,
                   outfile, dirs, files, filesAtCall, saveVars, seed, result, run,
                   firstArchive>>

----------------------------------------------------------------------------
(* The data source and the extractor's forward pass *)

NumClasses == 5

\* example j of the split, in manifest order: its image and its label
Example(j) == [x |-> j, y |-> j % NumClasses]

\* len(data_loader)
LoaderLen(dl) == (dl.n + dl.batch_size - 1) \div dl.batch_size

\* batch b (from 0) of the loader: no shuffling, the last batch may be short
Batch(dl, b) ==
    LET first == b * dl.batch_size
        size == IF dl.n - first < dl.batch_size THEN dl.n - first ELSE dl.batch_size
    IN  [p \in 1..size |-> Example(first + p - 1)]

\* model(x): one feature row per image, fixed by the loaded parameters
Forward(m, x) == 1 + x + Len(m.params)

----------------------------------------------------------------------------
(* _get_data_loader_and_outfile *)

Digits == <<"0", "1", "2", "3", "4", "5", "6", "7", "8", "9">>

\* str(n) of an int
RECURSIVE NatToStr(_)
NatToStr(n) ==
    IF n < 10 THEN Digits[n + 1] ELSE NatToStr(n \div 10) \o Digits[(n % 10) + 1]

IntToStr(n) == IF n < 0 THEN "-" \o NatToStr(-n) ELSE NatToStr(n)

\* os.path.join(directory, name), name a single relative component
PathJoin(directory, name) == Append(directory, name)

\* os.path.dirname(path)
DirName(path) == SubSeq(path, 1, Len(path) - 1)

\* the output path with the iteration suffix chosen the wrong way round
OutfileSwapped(checkpoint_dir, split, save_iter) ==
    IF save_iter = BestIter
    THEN PathJoin(checkpoint_dir, split \o "_" \o IntToStr(save_iter) \o ".hdf5")
    ELSE PathJoin(checkpoint_dir, split \o ".hdf5")

\* lines 155-159
Outfile(checkpoint_dir, split, save_iter) ==
    IF save_iter # BestIter
    THEN PathJoin(checkpoint_dir, split \o "_" \o IntToStr(save_iter) \o ".hdf5")
    ELSE PathJoin(checkpoint_dir, split \o ".hdf5")

\* lines 146-149
ImageSize(backbone) ==
    IF backbone \in ConvFamily THEN ConvImageSize ELSE OtherImageSize

\* os.makedirs(d): d and every missing ancestor
MakeDirs(ds, d) == ds \cup {SubSeq(d, 1, p) : p \in 1..Len(d)}

\* lines 143-169
GetDataLoaderAndOutfile ==
    /\ pc = "get_loader"
    /\ IF cfg.method \in MamlMethods
       THEN /\ Raise("assertion")
            /\ UNCHANGED <<outfile, data_loader, dirs>>
       ELSE LET path == Outfile(cfg.checkpoint_dir, cfg.split, cfg.save_iter)
            IN  /\ outfile' = path
                /\ data_loader' = [image_size |-> ImageSize(cfg.backbone),
                                   batch_size |-> BatchSize,
                                   n |-> n_examples]
                /\ dirs' = IF DirName(path) \in dirs THEN dirs
                           ELSE MakeDirs(dirs, DirName(path))
                /\ pc' = "save_open"
                /\ err' = err
    /\ UNCHANGED <<cfg, n_examples, given, loadVars, files, filesAtCall, saveVars,
                   seed, result, run, firstArchive>>

----------------------------------------------------------------------------
(* _save_features *)

Int32Max == 2147483647

\* a value stored in a dataset of dtype 'i'
AsInt32(v) == IF v > Int32Max THEN Int32Max ELSE IF v < -Int32Max - 1 THEN -Int32Max - 1 ELSE v

Zeros(n) == [p \in 1..n |-> 0]

EmptyArchive == <<>>

\* a function with one more (or one replaced) argument
With(fn, arg, val) == [a \in DOMAIN fn \cup {arg} |-> IF a = arg THEN val ELSE fn[a]]

\* h5py.File(path, 'a'): an archive already there is kept
H5OpenAppend(fs, path) == IF path \in DOMAIN fs THEN fs ELSE With(fs, path, EmptyArchive)

\* h5py.File(path, 'w'): the file is created, or truncated if it is there
H5OpenWrite(fs, path) == With(fs, path, EmptyArchive)

\* the slice [start, start + len(vals)) of arr assigned at one row too far
SliceAssignShifted(arr, start, vals) ==
    [p \in 1..Len(arr) |->
        IF start + 1 < p /\ p <= start + 1 + Len(vals) THEN vals[p - start - 1] ELSE arr[p]]

\* arr[start:start + len(vals)] = vals
SliceAssign(arr, start, vals) ==
    [p \in 1..Len(arr) |->
        IF start < p /\ p <= start + Len(vals) THEN vals[p - start] ELSE arr[p]]

\* a write to a dataset of the archive that lands one row too far
H5WriteShifted(ds, start, vals) == SliceAssignShifted(ds, start, vals)

\* a write to a dataset of the archive
H5Write(ds, start, vals) == SliceAssign(ds, start, vals)

\* a write to an in-memory array
NpWrite(arr, start, vals) == SliceAssign(arr, start, vals)

\* the offset advanced by a full batch whatever the batch holds
NextCountFullBatch(c, feats) == c + BatchSize

\* line 129
NextCount(c, feats) == c + Len(feats)

\* the datasets created when the archive is opened, `count` among them
InitialDatasetsWithCount(capacity) ==
    [name \in {"all_labels", "count"} |->
        IF name = "count" THEN <<0>> ELSE Zeros(capacity)]

\* line 109: the datasets created when the archive is opened
InitialDatasets(capacity) == [name \in {"all_labels"} |-> Zeros(capacity)]

\* create_dataset: the names that are already in the archive
NameClash(archive, names) == (DOMAIN archive \cap names) # {}

Merge(a, b) == [n \in DOMAIN a \cup DOMAIN b |-> IF n \in DOMAIN b THEN b[n] ELSE a[n]]

\* lines 106-113
SaveOpen ==
    /\ pc = "save_open"
    /\ LET capacity == LoaderLen(data_loader) * data_loader.batch_size
           opened == H5OpenWrite(files, outfile)
           created == InitialDatasets(capacity)
       IN  /\ f' = "open"
           /\ max_count' = capacity
           /\ IF NameClash(opened[outfile], DOMAIN created)
              THEN /\ Raise("name_exists")
                   /\ files' = opened
                   /\ UNCHANGED <<all_labels_array, all_feats_array, count, i>>
              ELSE /\ files' = With(opened, outfile, Merge(opened[outfile], created))
                   /\ all_labels_array' = Zeros(capacity)
                   /\ all_feats_array' = None
                   /\ count' = 0
                   /\ i' = 0
                   /\ pc' = "loop"
                   /\ err' = err
    /\ UNCHANGED <<cfg, n_examples, given, loadVars, data_loader, outfile, dirs,
                   filesAtCall, seed, result, run, firstArchive>>

\* lines 115-129: one batch
SaveBatch ==
    /\ pc = "loop"
    /\ i < LoaderLen(data_loader)
    /\ LET batch == Batch(data_loader, i)
           feats == [p \in 1..Len(batch) |-> Forward(model, batch[p].x)]
           y == [p \in 1..Len(batch) |-> batch[p].y]
           archive0 == files[outfile]
           first == IsNone(all_feats_array)
           archive1 == IF first THEN With(archive0, "all_feats", Zeros(max_count))
                       ELSE archive0
           mirror1 == IF first THEN Zeros(max_count) ELSE Value(all_feats_array)
       IN  IF \/ first /\ NameClash(archive0, {"all_feats"})
              \/ count + Len(feats) > max_count
           THEN /\ Raise(IF first /\ NameClash(archive0, {"all_feats"})
                         THEN "name_exists" ELSE "shape")
                /\ UNCHANGED <<files, all_labels_array, all_feats_array, count, i>>
           ELSE /\ files' = With(files, outfile,
                        [archive1 EXCEPT
                            !["all_feats"] = H5Write(@, count, feats),
                            !["all_labels"] = H5Write(@, count,
                                                [p \in 1..Len(y) |-> AsInt32(y[p])])])
                /\ all_feats_array' = Some(NpWrite(mirror1, count, feats))
                /\ all_labels_array' = NpWrite(all_labels_array, count, y)
                /\ count' = NextCount(count, feats)
                /\ i' = i + 1
                /\ UNCHANGED <<pc, err>>
    /\ UNCHANGED <<cfg, n_examples, given, loadVars, data_loader, outfile, dirs,
                   filesAtCall, f, max_count, seed, result, run, firstArchive>>

\* lines 119-121: the transfer to the device or the forward pass raises
BatchFails ==
    /\ pc = "loop"
    /\ i < LoaderLen(data_loader)
    /\ Raise("device")
    /\ UNCHANGED <<cfg, n_examples, given, loadVars, data_loader, outfile, dirs, files,
                   filesAtCall, saveVars, seed, result, run, firstArchive>>

\* line 131
CreateCount ==
    /\ pc = "loop"
    /\ i >= LoaderLen(data_loader)
    /\ IF NameClash(files[outfile], {"count"})
       THEN /\ Raise("name_exists")
            /\ files' = files
       ELSE /\ files' = With(files, outfile, With(files[outfile], "count", <<0>>))
            /\ pc' = "write_count"
            /\ err' = err
    /\ UNCHANGED <<cfg, n_examples, given, loadVars, data_loader, outfile, dirs,
                   filesAtCall, saveVars, seed, result, run, firstArchive>>

\* line 132
WriteCount ==
    /\ pc = "write_count"
    /\ files' = With(files, outfile, With(files[outfile], "count", <<AsInt32(count)>>))
    /\ pc' = "close"
    /\ UNCHANGED <<cfg, n_examples, given, loadVars, data_loader, outfile, dirs,
                   filesAtCall, saveVars, seed, result, err, run, firstArchive>>

\* lines 133-134, and the return of apply at line 90
CloseAndReturn ==
    /\ pc = "close"
    /\ f' = "closed"
    /\ result' = Pair(all_feats_array, all_labels_array)
    /\ firstArchive' = IF firstArchive = NoArchive
                       THEN Some([run |-> run, path |-> outfile, archive |-> files[outfile]])
                       ELSE firstArchive
    /\ pc' = "done"
    /\ UNCHANGED <<cfg, n_examples, given, loadVars, data_loader, outfile, dirs, files,
                   filesAtCall, max_count, all_labels_array, all_feats_array, count, i,
                   seed, err, run>>

----------------------------------------------------------------------------
(* apply *)

FreshSeeds == {101, 102}

\* set_and_print_random_seed: the seed given, or a fresh one when none is given
SeedChoices(random_seed) == IF IsNone(random_seed) THEN FreshSeeds ELSE {Value(random_seed)}

\* line 82
IsMaml(method) == method \in MamlMethods

\* lines 80-86: seed, then either the early return for MAML or on to _load_model
SeedAndCheckMethod ==
    /\ pc = "apply"
    /\ seed' \in SeedChoices(cfg.random_seed)
    /\ IF IsMaml(cfg.method)
       THEN /\ result' = ReturnedNone
            /\ pc' = "done"
       ELSE /\ result' = result
            /\ pc' = "load_model"
    /\ UNCHANGED <<cfg, n_examples, given, loadVars, data_loader, outfile, dirs, files,
                   filesAtCall, saveVars, err, run, firstArchive>>

\* the caller calls apply again, with the same model_state
Rerun ==
    /\ pc \in {"done", "error"}
    /\ run < MaxRuns
    /\ run' = run + 1
    /\ given' = heap[CallerRef]
    /\ heap' = [heap EXCEPT ![CopyRef] = <<>>]
    /\ stateRef' = None
    /\ state_keys' = <<>>
    /\ ki' = 0
    /\ model' = NoModel
    /\ data_loader' = NoLoader
    /\ outfile' = <<>>
    /\ filesAtCall' = files
    /\ f' = "none"
    /\ max_count' = 0
    /\ all_labels_array' = <<>>
    /\ all_feats_array' = None
    /\ count' = 0
    /\ i' = 0
    /\ result' = NoResult
    /\ err' = "none"
    /\ pc' = "apply"
    /\ UNCHANGED <<cfg, n_examples, dirs, files, seed, firstArchive>>

----------------------------------------------------------------------------
(* Initial states *)

Entry(k, v) == [k |-> k, v |-> v]

\* a trained model with a feature extractor and a classifier head
TrainedState == <<Entry(FEATURE \o TRUNK_W, 1), Entry(CLASSIFIER_W, 2)>>

\* an archive left at the output path by some earlier program
StaleArchive ==
    [name \in {"all_labels", "all_feats", "count"} |->
        IF name = "count" THEN <<1>> ELSE <<9, 9>>]

Locals(start) ==
    /\ stateRef = None
    /\ state_keys = <<>>
    /\ ki = 0
    /\ model = NoModel
    /\ data_loader = NoLoader
    /\ outfile = <<>>
    /\ f = "none"
    /\ max_count = 0
    /\ all_labels_array = <<>>
    /\ all_feats_array = None
    /\ count = 0
    /\ i = 0
    /\ seed = 0
    /\ result = NoResult
    /\ err = "none"
    /\ run = 1
    /\ firstArchive = NoArchive
    /\ pc = start

Init ==
    /\ cfg \in {Config(m, b, "novel", it, rs, CheckpointDir) :
                    m \in {"baseline", "maml", "maml_approx"},
                    b \in {"Conv4", "ResNet10"},
                    it \in {BestIter, 12},
                    rs \in {None, Some(7)}}
    /\ n_examples \in 0..MaxExamples
    /\ heap = [r \in {CallerRef, CopyRef} |-> IF r = CallerRef THEN TrainedState ELSE <<>>]
    /\ given = TrainedState
    /\ \/ /\ dirs = {}
          /\ files = <<>>
       \/ /\ dirs = MakeDirs({}, CheckpointDir)
          /\ files = [path \in {Outfile(cfg.checkpoint_dir, cfg.split, cfg.save_iter)}
                        |-> StaleArchive]
    /\ filesAtCall = files
    /\ Locals("apply")

Next ==
    \/ SeedAndCheckMethod
    \/ LoadModelBegin
    \/ FilterKey
    \/ LoadStateDict
    \/ GetDataLoaderAndOutfile
    \/ SaveOpen
    \/ SaveBatch
    \/ BatchFails
    \/ CreateCount
    \/ WriteCount
    \/ CloseAndReturn
    \/ Rerun

Spec == Init /\ [][Next]_vars

(* _load_model alone, on every small state mapping *)

KeyPool ==
    <<FEATURE \o TRUNK_W, CLASSIFIER_W, TRUNK_W, FEATURE \o BIAS,
      <<"m", ".">> \o FEATURE \o BIAS, FEATURE \o FEATURE \o BIAS>>

\* the insertion-ordered mappings of at most MaxKeys keys of the pool
StateMappings ==
    UNION {{[p \in 1..n |-> Entry(KeyPool[ks[p]], ks[p])] :
                ks \in {s \in [1..n -> 1..Len(KeyPool)] :
                            \A a, b \in 1..n : a # b => s[a] # s[b]}} :
           n \in 0..MaxKeys}

InitLoad ==
    /\ cfg \in {Config(m, b, "novel", BestIter, Some(7), CheckpointDir) :
                    m \in {"baseline", "relationnet"}, b \in {"Conv4", "ResNet10"}}
    /\ n_examples = 0
    /\ given \in StateMappings
    /\ heap = [r \in {CallerRef, CopyRef} |-> IF r = CallerRef THEN given ELSE <<>>]
    /\ dirs = {}
    /\ files = <<>>
    /\ filesAtCall = files
    /\ Locals("load_model")

NextLoad ==
    \/ LoadModelBegin
    \/ FilterKey
    \/ LoadStateDict

SpecLoad == InitLoad /\ [][NextLoad]_vars

(* _get_data_loader_and_outfile alone, on many configurations *)

InitPath ==
    /\ cfg \in {Config(m, b, sp, it, Some(7), cd) :
                    m \in {"baseline", "maml"},
                    b \in {"Conv4", "ResNet10"},
                    sp \in {"base", "val", "novel"},
                    it \in (-MaxIter)..MaxIter,
                    cd \in {CheckpointDir, <<"ckpt">>}}
    /\ n_examples = BatchSize
    /\ given = TrainedState
    /\ heap = [r \in {CallerRef, CopyRef} |-> IF r = CallerRef THEN given ELSE <<>>]
    /\ dirs \in {{}, {<<"output">>}, MakeDirs({}, cfg.checkpoint_dir)}
    /\ files = <<>>
    /\ filesAtCall = files
    /\ Locals("get_loader")

NextPath == GetDataLoaderAndOutfile

SpecPath == InitPath /\ [][NextPath]_vars

----------------------------------------------------------------------------
(* Properties *)

Archive == files[outfile]

\* the feature row and the label the extractor and the split give for example j
ExpectedFeat(j) == Forward(model, Example(j).x)
ExpectedLabel(j) == Example(j).y

\* number of examples in the first k batches
RECURSIVE BatchTotal(_, _)
BatchTotal(dl, k) == IF k = 0 THEN 0 ELSE BatchTotal(dl, k - 1) + Len(Batch(dl, k - 1))

\* C1: for every method but MAML and every data source, apply returns a pair
\* (features, labels) whose first dimensions both equal
\* capacity = batch_count * batch_size, and the archive's count field is the number
\* of examples of the split.
C1_ApplyReturnsCapacityArrays ==
    (pc = "done" /\ cfg.method \notin {"maml", "maml_approx"}) =>
        /\ result.kind = "pair"
        /\ ~IsNone(result.feats)
        /\ Len(Value(result.feats)) = LoaderLen(data_loader) * 64
        /\ Len(result.labels) = LoaderLen(data_loader) * 64
        /\ Archive["count"] = <<n_examples>>

\* The same for the splits that hold at least one example; for an empty split the
\* features element of the pair is None.
ApplyReturnsCapacityArraysNonEmpty ==
    (pc = "done" /\ cfg.method \notin {"maml", "maml_approx"}) =>
        /\ result.kind = "pair"
        /\ Len(result.labels) = LoaderLen(data_loader) * 64
        /\ Archive["count"] = <<n_examples>>
        /\ IF n_examples = 0 THEN IsNone(result.feats)
           ELSE /\ ~IsNone(result.feats)
                /\ Len(Value(result.feats)) = LoaderLen(data_loader) * 64
        /\ (n_examples = 130 =>
                LoaderLen(data_loader) = 3 /\ Len(result.labels) = 192)

\* the loop over state_keys is over: heap[stateRef] is what load_state_dict is given
FilterDone == \/ pc = "filter" /\ ki > Len(state_keys)
              \/ pc \in {"get_loader", "error"}

\* C3: the mapping passed to load_state_dict holds exactly one entry per given
\* entry whose key is prefixed with "feature.", under the key with the prefix
\* stripped and with the same value, and no other entry.
C3_OnlyPrefixedKeysKept ==
    FilterDone =>
        Entries(heap[stateRef]) =
            {<<SubSeq(e[1], Len(FEATURE) + 1, Len(e[1])), e[2]>> :
                e \in {x \in Entries(given) : StartsWith(x[1], FEATURE)}}

\* C4: after a successful apply, the archive's all_feats and all_labels hold, at
\* every index below the archive's count, the same row and label as the arrays
\* apply returned.
C4_RoundTrip ==
    (pc = "done" /\ result.kind = "pair") =>
        \A j \in 1..Archive["count"][1] :
            /\ Archive["all_feats"][j] = Value(result.feats)[j]
            /\ Archive["all_labels"][j] = result.labels[j]

C4_Witness ==
    /\ pc = "done"
    /\ result.kind = "pair"
    /\ Archive["count"] = <<130>>
    /\ Archive["all_feats"][130] # 0

\* C5: whenever the archive opened by _save_features holds a count field, every
\* batch has been written and the rows below count are valid; a failure in the
\* batch loop leaves no count field; a successful call has written count (the
\* number of examples) by the time the archive is closed and apply returns.
C5_CountWrittenLast ==
    f # "none" =>
        /\ "count" \in DOMAIN Archive =>
                /\ pc \in {"write_count", "close", "done"}
                /\ i = LoaderLen(data_loader)
                /\ \A j \in 0..(Archive["count"][1] - 1) :
                        /\ Archive["all_feats"][j + 1] = ExpectedFeat(j)
                        /\ Archive["all_labels"][j + 1] = ExpectedLabel(j)
        /\ err = "device" => "count" \notin DOMAIN Archive
        /\ f = "closed" => ("count" \in DOMAIN Archive /\ Archive["count"] = <<n_examples>>)
        /\ pc = "done" => f = "closed"

C5_Witness ==
    /\ err = "device"
    /\ f = "open"
    /\ i = 2
    /\ "count" \notin DOMAIN Archive

\* C6: the output path is <checkpoint_dir>/<split>.hdf5 for save_iter = -1 and
\* <checkpoint_dir>/<split>_<n>.hdf5 for every other save_iter n, and its
\* directory exists once _get_data_loader_and_outfile has returned.
C6_OutputPath ==
    pc = "save_open" =>
        LET name == outfile[Len(outfile)]
        IN  /\ DirName(outfile) = cfg.checkpoint_dir
            /\ name = IF cfg.save_iter = -1 THEN cfg.split \o ".hdf5"
                      ELSE cfg.split \o "_" \o IntToStr(cfg.save_iter) \o ".hdf5"
            /\ (cfg.split = "novel" /\ cfg.save_iter = -1) => name = "novel.hdf5"
            /\ (cfg.split = "novel" /\ cfg.save_iter = 12) => name = "novel_12.hdf5"
            /\ (cfg.split = "val" /\ cfg.save_iter = 0) => name = "val_0.hdf5"
            /\ (cfg.split = "base" /\ cfg.save_iter = -2) => name = "base_-2.hdf5"
            /\ DirName(outfile) \in dirs

C6_Witness ==
    /\ pc = "save_open"
    /\ cfg.save_iter = 12
    /\ outfile = <<"output", "CUB_model", "novel_12.hdf5">>
    /\ dirs = {<<"output">>, <<"output", "CUB_model">>}

\* C7: a second apply with the same configuration, model_state and data writes
\* to the same path, is not stopped by the archive already there, and leaves the
\* same count and the same rows below count, in arrays of the same size.
C7_RerunOverwrites ==
    /\ err # "name_exists"
    /\ (/\ pc = "done"
        /\ result.kind = "pair"
        /\ ~IsNone(firstArchive)
        /\ Value(firstArchive).run < run) =>
            LET first == Value(firstArchive).archive
            IN  /\ outfile = Value(firstArchive).path
                /\ DOMAIN Archive = DOMAIN first
                /\ Archive["count"] = first["count"]
                /\ Len(Archive["all_labels"]) = Len(first["all_labels"])
                /\ \A j \in 1..Archive["count"][1] :
                        /\ Archive["all_feats"][j] = first["all_feats"][j]
                        /\ Archive["all_labels"][j] = first["all_labels"][j]

C7_Witness ==
    /\ pc = "done"
    /\ result.kind = "pair"
    /\ ~IsNone(firstArchive)
    /\ Value(firstArchive).run = 1
    /\ run = 2
    /\ Archive["count"] = <<130>>

\* C8: in the batch loop, after k batches the offset count is the number of
\* examples of those k batches and is at most the capacity; row j of the archive
\* and of the in-memory arrays holds example j for every j < count; and the rows
\* of the in-memory arrays from count to the capacity are zero.
C8_WriteOffsetInvariant ==
    pc = "loop" =>
        /\ count = BatchTotal(data_loader, i)
        /\ count <= max_count
        /\ \A j \in 0..(count - 1) :
                /\ Archive["all_feats"][j + 1] = ExpectedFeat(j)
                /\ Value(all_feats_array)[j + 1] = ExpectedFeat(j)
                /\ Archive["all_labels"][j + 1] = ExpectedLabel(j)
                /\ all_labels_array[j + 1] = ExpectedLabel(j)
        /\ Len(all_labels_array) = max_count
        /\ \A j \in count..(max_count - 1) :
                /\ all_labels_array[j + 1] = 0
                /\ ~IsNone(all_feats_array) => Value(all_feats_array)[j + 1] = 0

C8_Witness ==
    /\ pc = "loop"
    /\ i = 3
    /\ count = 130
    /\ max_count = 192
    /\ Value(all_feats_array)[130] # 0
    /\ Value(all_feats_array)[131] = 0

\* C9: when the filtered key set differs from the extractor's parameter names,
\* apply ends in a propagated error with no result, before the archive is
\* opened: the filesystem's files are as they were when apply was called.
C9_KeyMismatchAbortsBeforeArchive ==
    /\ err = "key_mismatch" =>
            /\ pc = "error"
            /\ result = NoResult
            /\ f = "none"
            /\ files = filesAtCall
    /\ (/\ model # NoModel
        /\ pc # "filter"
        /\ KeySet(heap[stateRef]) # model.expected) => err = "key_mismatch"

C9_Witness ==
    /\ err = "key_mismatch"
    /\ DOMAIN files # {}
    /\ files = filesAtCall

\* C10: the dict the caller passed as model_state['state'] has the same keys and
\* values as when _load_model was called, in every state up to its return or
\* failure; only the copy is renamed and pruned.
C10_CallerStateUnchanged ==
    heap[CallerRef] = given

C10_Witness ==
    /\ pc \in {"get_loader", "error"}
    /\ Len(given) = 3
    /\ heap[stateRef] # given
    /\ heap[CallerRef] = given

====
